---- MODULE Spec2Model ----
(***************************************************************************)
(* One collection cycle of the HomeWizard exporter:                        *)
(* HomewizardClient::get_measurement -> discover_devices -> get_samples    *)
(* (src/src/homewizard_client.rs).                                         *)
(*                                                                         *)
(* f64 values are modelled as exact rationals [n, d] in lowest terms, so   *)
(* the arithmetic is the arithmetic of the code without its rounding.      *)
(* Time is counted in whole seconds since `start` (line 345).              *)
(***************************************************************************)
EXTENDS Integers, Sequences, FiniteSets, TLC

\* ---------------------------------------------------------------- bounds
\* resolved events one browse session delivers (other events are unbounded)
MaxEvents == 3
\* seconds the clock is followed after `start`
MaxElapsed == 3
\* largest TIMEOUT_SECONDS tried
MaxTimeout == 1
\* events received after the deadline that are kept count of
MaxLate == 2

\* ---------------------------------------------------------- value domain
RECURSIVE Gcd(_, _)
Gcd(a, b) == IF b = 0 THEN a ELSE Gcd(b, a % b)

\* the rational n/d (n >= 0, d > 0) in lowest terms
Rat(n, d) == LET g == Gcd(n, d) IN [n |-> n \div g, d |-> d \div g]

\* f64 `a * b`
Mul(a, b) == Rat(a.n * b.n, a.d * b.d)

\* f64 `a / b`, b # 0
Div(a, b) == Rat(a.n * b.d, a.d * b.n)

\* ------------------------------------------------------------ environment
\* service instances that may announce themselves on the network
Fullnames == {"watermeter-2D7A68._hwenergy._tcp.local.",
              "p1meter-0A1B2C._hwenergy._tcp.local.",
              "energysocket-3F4E5D._hwenergy._tcp.local."}

\* address sets a ServiceInfo may carry (HashSet<Ipv4Addr>, possibly empty)
AddrSets == {{}, {"192.168.1.10"}}

\* product_type strings a device may report: the five known ones and one
\* that HomewizardDeviceType::from_str does not know
ProductTypes == {"HWE-P1", "HWE-SKT", "HWE-WTR", "SDM230-wifi", "SDM630-wifi",
                 "HWE-KWH1"}

Serials == {"3c39e72e33ce", "abc123"}

ProductNameOf(t) ==
    CASE t = "HWE-P1" -> "P1 meter"
      [] t = "HWE-SKT" -> "Energy Socket"
      [] t = "HWE-WTR" -> "Watermeter"
      [] t = "SDM230-wifi" -> "kWh meter"
      [] t = "SDM630-wifi" -> "kWh meter 3-phase"
      [] OTHER -> "kWh meter 1-phase"

\* decoded bodies of GET /api
DeviceInfoResponse ==
    { [product_type |-> t, product_name |-> ProductNameOf(t), serial |-> s,
       api_version |-> "v1"] : t \in ProductTypes, s \in Serials }

\* Config values the orchestrator may pass (names: serial -> friendly name)
Configs == { [location |-> "My Home", names |-> [s \in {} |-> "Kitchen"]],
             [location |-> "My Home", names |-> [s \in {"abc123"} |-> "Kitchen"]] }

\* decoded bodies of GET /api/<api_version>/data, by payload shape; the
\* fields no sample reads (wifi_ssid, per-phase power, gas, ...) are left out
EnergySocketDataResponse ==
    { [total_power_import_t1_kwh |-> Rat(1, 1), total_power_export_t1_kwh |-> Rat(0, 1),
       active_power_w |-> Rat(500, 1)] }

SinglePhaseKwhMeterDataResponse ==
    { [total_power_import_t1_kwh |-> Rat(5, 2), total_power_export_t1_kwh |-> Rat(1, 2),
       active_power_w |-> Rat(0, 1)] }

TriplePhaseKwhMeterDataResponse ==
    { [total_power_import_t1_kwh |-> Rat(0, 1), total_power_export_t1_kwh |-> Rat(3, 4),
       active_power_w |-> Rat(7, 2)] }

WaterMeterDataResponse ==
    { [total_liter_m3 |-> Rat(0, 1), active_liter_lpm |-> Rat(1, 1)],
      [total_liter_m3 |-> Rat(5, 2), active_liter_lpm |-> Rat(15, 2)] }

P1MeterDataResponse ==
    { [total_power_import_t1_kwh |-> Rat(1, 1), total_power_export_t1_kwh |-> Rat(0, 1),
       total_power_import_t2_kwh |-> Rat(2, 1), total_power_export_t2_kwh |-> Rat(0, 1),
       active_power_w |-> Rat(500, 1)],
      [total_power_import_t1_kwh |-> Rat(1, 2), total_power_export_t1_kwh |-> Rat(5, 2),
       total_power_import_t2_kwh |-> Rat(3, 4), total_power_export_t2_kwh |-> Rat(1, 1),
       active_power_w |-> Rat(7, 2)] }

\* ------------------------------------------------------------ get_samples
\* HomewizardDeviceType::from_str; "Err" is Err(())
from_str(input) ==
    CASE input = "HWE-P1" -> "P1Meter"
      [] input = "HWE-SKT" -> "EnergySocket"
      [] input = "HWE-WTR" -> "WaterMeter"
      [] input = "SDM230-wifi" -> "SinglePhaseKwhMeter"
      [] input = "SDM630-wifi" -> "TriplePhaseKwhMeter"
      [] OTHER -> "Err"

\* the data payloads that decode for a device type
DataResponses(device_type) ==
    CASE device_type = "P1Meter" -> P1MeterDataResponse
      [] device_type = "EnergySocket" -> EnergySocketDataResponse
      [] device_type = "WaterMeter" -> WaterMeterDataResponse
      [] device_type = "SinglePhaseKwhMeter" -> SinglePhaseKwhMeterDataResponse
      [] device_type = "TriplePhaseKwhMeter" -> TriplePhaseKwhMeterDataResponse

Sample(entity_type, entity_name, sample_type, sample_name, metric_type, value) ==
    [entity_type |-> entity_type, entity_name |-> entity_name,
     sample_type |-> sample_type, sample_name |-> sample_name,
     metric_type |-> metric_type, value |-> value]

\* faulty variant: the friendly name without the lookup in config.names
FriendlyNameProductOnly(config, info) == info.product_name

\* let friendly_name = if let Some(name) = config.names.get(&serial) ...
FriendlyName(config, info) ==
    IF info.serial \in DOMAIN config.names
    THEN config.names[info.serial]
    ELSE info.product_name

\* Ok(vec![...]) of the HomewizardDeviceType::EnergySocket arm
EnergySocketSamples(info, friendly_name, data) ==
    << Sample("Device", info.product_type, "ElectricityConsumption", friendly_name,
              "Counter", Mul(Mul(data.total_power_import_t1_kwh, Rat(1000, 1)), Rat(3600, 1))),
       Sample("Device", info.product_type, "ElectricityProduction", friendly_name,
              "Counter", Mul(Mul(data.total_power_export_t1_kwh, Rat(1000, 1)), Rat(3600, 1))),
       Sample("Device", info.product_type, "ElectricityConsumption", friendly_name,
              "Gauge", data.active_power_w) >>

\* Ok(vec![...]) of the HomewizardDeviceType::SinglePhaseKwhMeter arm
SinglePhaseKwhMeterSamples(info, friendly_name, data) ==
    << Sample("Device", info.product_type, "ElectricityConsumption", friendly_name,
              "Counter", Mul(Mul(data.total_power_import_t1_kwh, Rat(1000, 1)), Rat(3600, 1))),
       Sample("Device", info.product_type, "ElectricityProduction", friendly_name,
              "Counter", Mul(Mul(data.total_power_export_t1_kwh, Rat(1000, 1)), Rat(3600, 1))),
       Sample("Device", info.product_type, "ElectricityConsumption", friendly_name,
              "Gauge", data.active_power_w) >>

\* faulty variant: the TriplePhaseKwhMeter arm without its Gauge sample
TriplePhaseKwhMeterSamplesNoGauge(info, friendly_name, data) ==
    << Sample("Device", info.product_type, "ElectricityConsumption", friendly_name,
              "Counter", Mul(Mul(data.total_power_import_t1_kwh, Rat(1000, 1)), Rat(3600, 1))),
       Sample("Device", info.product_type, "ElectricityProduction", friendly_name,
              "Counter", Mul(Mul(data.total_power_export_t1_kwh, Rat(1000, 1)), Rat(3600, 1))) >>

\* Ok(vec![...]) of the HomewizardDeviceType::TriplePhaseKwhMeter arm
TriplePhaseKwhMeterSamples(info, friendly_name, data) ==
    << Sample("Device", info.product_type, "ElectricityConsumption", friendly_name,
              "Counter", Mul(Mul(data.total_power_import_t1_kwh, Rat(1000, 1)), Rat(3600, 1))),
       Sample("Device", info.product_type, "ElectricityProduction", friendly_name,
              "Counter", Mul(Mul(data.total_power_export_t1_kwh, Rat(1000, 1)), Rat(3600, 1))),
       Sample("Device", info.product_type, "ElectricityConsumption", friendly_name,
              "Gauge", data.active_power_w) >>

\* faulty variant: the WaterMeter Gauge left per minute (the factor 60 dropped)
WaterMeterSamplesPerMinute(info, friendly_name, data) ==
    << Sample("Device", info.product_type, "WaterConsumption", friendly_name,
              "Counter", data.total_liter_m3),
       Sample("Device", info.product_type, "WaterConsumption", friendly_name,
              "Gauge", Div(data.active_liter_lpm, Rat(1000, 1))) >>

\* Ok(vec![...]) of the HomewizardDeviceType::WaterMeter arm
WaterMeterSamples(info, friendly_name, data) ==
    << Sample("Device", info.product_type, "WaterConsumption", friendly_name,
              "Counter", data.total_liter_m3),
       Sample("Device", info.product_type, "WaterConsumption", friendly_name,
              "Gauge", Div(Mul(data.active_liter_lpm, Rat(60, 1)), Rat(1000, 1))) >>

\* faulty variant: the P1Meter arm with both imports ahead of both exports
P1MeterSamplesByDirection(info, friendly_name, data) ==
    << Sample("Tariff", info.product_type, "ElectricityConsumption", "t1 import",
              "Counter", Mul(Mul(data.total_power_import_t1_kwh, Rat(1000, 1)), Rat(3600, 1))),
       Sample("Tariff", info.product_type, "ElectricityConsumption", "t2 import",
              "Counter", Mul(Mul(data.total_power_import_t2_kwh, Rat(1000, 1)), Rat(3600, 1))),
       Sample("Tariff", info.product_type, "ElectricityProduction", "t1 export",
              "Counter", Mul(Mul(data.total_power_export_t1_kwh, Rat(1000, 1)), Rat(3600, 1))),
       Sample("Tariff", info.product_type, "ElectricityProduction", "t2 export",
              "Counter", Mul(Mul(data.total_power_export_t2_kwh, Rat(1000, 1)), Rat(3600, 1))),
       Sample("Device", info.product_type, "ElectricityConsumption", friendly_name,
              "Gauge", data.active_power_w) >>

\* Ok(vec![...]) of the HomewizardDeviceType::P1Meter arm
P1MeterSamples(info, friendly_name, data) ==
    << Sample("Tariff", info.product_type, "ElectricityConsumption", "t1 import",
              "Counter", Mul(Mul(data.total_power_import_t1_kwh, Rat(1000, 1)), Rat(3600, 1))),
       Sample("Tariff", info.product_type, "ElectricityProduction", "t1 export",
              "Counter", Mul(Mul(data.total_power_export_t1_kwh, Rat(1000, 1)), Rat(3600, 1))),
       Sample("Tariff", info.product_type, "ElectricityConsumption", "t2 import",
              "Counter", Mul(Mul(data.total_power_import_t2_kwh, Rat(1000, 1)), Rat(3600, 1))),
       Sample("Tariff", info.product_type, "ElectricityProduction", "t2 export",
              "Counter", Mul(Mul(data.total_power_export_t2_kwh, Rat(1000, 1)), Rat(3600, 1))),
       Sample("Device", info.product_type, "ElectricityConsumption", friendly_name,
              "Gauge", data.active_power_w) >>

\* the Ok(vec![...]) of the match arm taken for device_type
SamplesOf(device_type, info, friendly_name, data) ==
    CASE device_type = "P1Meter" -> P1MeterSamples(info, friendly_name, data)
      [] device_type = "EnergySocket" -> EnergySocketSamples(info, friendly_name, data)
      [] device_type = "WaterMeter" -> WaterMeterSamples(info, friendly_name, data)
      [] device_type = "SinglePhaseKwhMeter" ->
            SinglePhaseKwhMeterSamples(info, friendly_name, data)
      [] device_type = "TriplePhaseKwhMeter" ->
            TriplePhaseKwhMeterSamples(info, friendly_name, data)

\* --------------------------------------------------------------- state
VARIABLES
    pc,                    \* where the cycle is: "recv", "check", "collect",
                           \* "info", "data", "returned", "panicked"
    timeout_seconds,       \* HomewizardClientConfig.timeout_seconds
    config,                \* the Config passed to get_measurement
    elapsed,               \* start.elapsed(), whole seconds
    devices,               \* discover_devices: HashMap fullname -> ip_addresses
    resolved,              \* the ServiceResolved events `receiver` has delivered
    discovered,            \* get_measurement: the Vec discover_devices returned
    idx,                   \* position of `for device in devices.iter()`
    device_info_response,  \* get_samples: the decoded GET /api body
    friendly_name,         \* get_samples: friendly_name
    samples,               \* measurement.samples
    owner,                 \* owner[k]: position in `discovered` of the device
                           \* whose get_samples produced samples[k]
    results,               \* results[i]: how get_samples ended for discovered[i]
    requests,              \* the HTTP requests issued so far, in order
    late,                  \* kinds of the events recv() returned after the deadline
    ref_pc,                \* discover_devices run on the same event stream with
    ref_devices            \* the non-resolved events removed: its place, its map

vars == << pc, timeout_seconds, config, elapsed, devices, resolved, discovered,
           idx, device_info_response, friendly_name, samples, owner, results,
           requests, late, ref_pc, ref_devices >>

NoInfo == [product_type |-> "", product_name |-> "", serial |-> "", api_version |-> ""]

EmptyMap == [f \in {} |-> {}]

\* the state in which get_measurement calls discover_devices (lines 51-60, 335-346)
Init ==
    /\ pc = "recv"
    /\ timeout_seconds \in 0..MaxTimeout
    /\ config \in Configs
    /\ elapsed = 0
    /\ devices = EmptyMap
    /\ resolved = << >>
    /\ discovered = << >>
    /\ idx = 0
    /\ device_info_response = NoInfo
    /\ friendly_name = ""
    /\ samples = << >>
    /\ owner = << >>
    /\ results = << >>
    /\ requests = << >>
    /\ late = << >>
    /\ ref_pc = "recv"
    /\ ref_devices = EmptyMap

\* -------------------------------------------------------- discover_devices
\* faulty variant: HashMap::entry(k).or_insert(v), which keeps the first value
InsertKeepFirst(m, k, v) ==
    [x \in DOMAIN m \cup {k} |-> IF x \in DOMAIN m THEN m[x] ELSE v]

\* HashMap::insert(k, v): the value of an existing key is replaced
Insert(m, k, v) ==
    [x \in DOMAIN m \cup {k} |-> IF x = k THEN v ELSE m[x]]

\* the record of an event that recv() returned at time `at`: it is kept when
\* the deadline had passed by then (the count stops at MaxLate)
NoteLate(log, at, timeout, kind) ==
    IF at > timeout /\ Len(log) < MaxLate THEN Append(log, kind) ELSE log

\* the wall clock advances while discover_devices runs
Tick ==
    /\ pc \in {"recv", "check"}
    /\ elapsed < MaxElapsed
    /\ elapsed' = elapsed + 1
    /\ UNCHANGED << pc, timeout_seconds, config, devices, resolved, discovered, idx,
                    device_info_response, friendly_name, samples, owner, results,
                    requests, late, ref_pc, ref_devices >>

\* faulty variant: the deadline is tested before the event is handled, so a
\* resolved event received after the deadline is dropped
RecvServiceResolvedDeadlineFirst ==
    /\ pc = "recv"
    /\ Len(resolved) < MaxEvents
    /\ \E fullname \in Fullnames, ip_addresses \in AddrSets :
          /\ devices' = IF elapsed > timeout_seconds THEN devices
                        ELSE Insert(devices, fullname, ip_addresses)
          /\ resolved' = Append(resolved,
                                [fullname |-> fullname, ip_addresses |-> ip_addresses])
          /\ ref_devices' = IF elapsed > timeout_seconds THEN ref_devices
                            ELSE Insert(ref_devices, fullname, ip_addresses)
    /\ pc' = "check"
    /\ ref_pc' = "check"
    /\ late' = NoteLate(late, elapsed, timeout_seconds, "resolved")
    /\ UNCHANGED << timeout_seconds, config, elapsed, discovered, idx,
                    device_info_response, friendly_name, samples, owner, results,
                    requests >>

\* receiver.recv() yields ServiceEvent::ServiceResolved(info)
RecvServiceResolved ==
    /\ pc = "recv"
    /\ Len(resolved) < MaxEvents
    /\ \E fullname \in Fullnames, ip_addresses \in AddrSets :
          /\ devices' = Insert(devices, fullname, ip_addresses)
          /\ resolved' = Append(resolved,
                                [fullname |-> fullname, ip_addresses |-> ip_addresses])
          /\ ref_devices' = Insert(ref_devices, fullname, ip_addresses)
    /\ pc' = "check"
    /\ ref_pc' = "check"
    /\ late' = NoteLate(late, elapsed, timeout_seconds, "resolved")
    /\ UNCHANGED << timeout_seconds, config, elapsed, discovered, idx,
                    device_info_response, friendly_name, samples, owner, results,
                    requests >>

\* receiver.recv() yields any other ServiceEvent
RecvOtherEvent ==
    /\ pc = "recv"
    /\ pc' = "check"
    /\ late' = NoteLate(late, elapsed, timeout_seconds, "other")
    /\ UNCHANGED << timeout_seconds, config, elapsed, devices, resolved, discovered, idx,
                    device_info_response, friendly_name, samples, owner, results,
                    requests, ref_pc, ref_devices >>

\* receiver.recv() yields Err: the channel is closed and the loop ends
RecvErr ==
    /\ pc = "recv"
    /\ pc' = "collect"
    /\ ref_pc' = "collect"
    /\ UNCHANGED << timeout_seconds, config, elapsed, devices, resolved, discovered, idx,
                    device_info_response, friendly_name, samples, owner, results,
                    requests, late, ref_devices >>

\* if start.elapsed() > timeout { break; }
CheckDeadline ==
    /\ pc = "check"
    /\ pc' = IF elapsed > timeout_seconds THEN "collect" ELSE "recv"
    /\ ref_pc' = IF ref_pc = "check" THEN pc' ELSE ref_pc
    /\ UNCHANGED << timeout_seconds, config, elapsed, devices, resolved, discovered, idx,
                    device_info_response, friendly_name, samples, owner, results,
                    requests, late, ref_devices >>

\* the run without the non-resolved events, once the run with them has left
\* its loop: it goes on with the resolved events still in the stream
RefRecvServiceResolved ==
    /\ pc = "collect"
    /\ ref_pc = "recv"
    /\ \E fullname \in Fullnames, ip_addresses \in AddrSets :
          ref_devices' = Insert(ref_devices, fullname, ip_addresses)
    /\ ref_pc' = "check"
    /\ UNCHANGED << pc, timeout_seconds, config, elapsed, devices, resolved, discovered,
                    idx, device_info_response, friendly_name, samples, owner, results,
                    requests, late >>

RefCheckDeadline ==
    /\ pc = "collect"
    /\ ref_pc = "check"
    /\ ref_pc' = IF elapsed > timeout_seconds THEN "collect" ELSE "recv"
    /\ UNCHANGED << pc, timeout_seconds, config, elapsed, devices, resolved, discovered,
                    idx, device_info_response, friendly_name, samples, owner, results,
                    requests, late, ref_devices >>

RefRecvErr ==
    /\ pc = "collect"
    /\ ref_pc = "recv"
    /\ ref_pc' = "collect"
    /\ UNCHANGED << pc, timeout_seconds, config, elapsed, devices, resolved, discovered,
                    idx, device_info_response, friendly_name, samples, owner, results,
                    requests, late, ref_devices >>

\* the orders in which HashMap::into_values may yield the entries of m
Orderings(m) ==
    { [i \in 1..Cardinality(DOMAIN m) |->
          [fullname |-> f[i], ip_addresses |-> m[f[i]]]] :
      f \in { g \in [1..Cardinality(DOMAIN m) -> DOMAIN m] :
                \A i, j \in 1..Cardinality(DOMAIN m) : i # j => g[i] # g[j] } }

\* where get_measurement goes once the device at position i - 1 is done
LoopHead(i, n) == IF i > n THEN "returned" ELSE "info"

\* Ok(devices.into_values().collect()) and the return into get_measurement;
\* the locals of discover_devices (devices, receiver, start) end here
CollectDevices ==
    /\ pc = "collect"
    /\ discovered' \in Orderings(devices)
    /\ idx' = 1
    /\ pc' = LoopHead(1, Cardinality(DOMAIN devices))
    /\ devices' = EmptyMap
    /\ resolved' = << >>
    /\ elapsed' = 0
    /\ late' = << >>
    /\ ref_pc' = "none"
    /\ ref_devices' = EmptyMap
    /\ UNCHANGED << timeout_seconds, config, device_info_response, friendly_name,
                    samples, owner, results, requests >>

\* ---------------------------------------------------------- get_measurement
\* faulty variant: the new samples put in front of the accumulated ones
PrependSamples(acc, new) == new \o acc

\* measurement.samples.append(&mut samples.clone())
AppendSamples(acc, new) == acc \o new

\* reqwest::blocking::get("http://<first address>/api") for the device at position i
InfoRequest(i) == [device |-> i, path |-> << "api" >>]

\* reqwest::blocking::get("http://<first address>/api/<api_version>/data")
DataRequest(i, api_version) == [device |-> i, path |-> << "api", api_version, "data" >>]

\* faulty variant: the error ends the loop (break) instead of skipping the device
SkipDeviceBreak(result) ==
    /\ idx' = Len(discovered) + 1
    /\ pc' = "returned"
    /\ results' = Append(results, result)
    /\ device_info_response' = NoInfo
    /\ friendly_name' = ""
    /\ UNCHANGED << timeout_seconds, config, elapsed, devices, resolved, discovered,
                    samples, owner, late, ref_pc, ref_devices >>

\* Err(_) => continue: get_samples returned Err, the loop goes to the next device
SkipDevice(result) ==
    /\ idx' = idx + 1
    /\ pc' = LoopHead(idx + 1, Len(discovered))
    /\ results' = Append(results, result)
    /\ device_info_response' = NoInfo
    /\ friendly_name' = ""
    /\ UNCHANGED << timeout_seconds, config, elapsed, devices, resolved, discovered,
                    samples, owner, late, ref_pc, ref_devices >>

\* device.ip_addresses.iter().next().unwrap() on an empty set: the thread panics
\* while the URL of GET /api is formatted
InfoNoAddress ==
    /\ pc = "info"
    /\ discovered[idx].ip_addresses = {}
    /\ pc' = "panicked"
    /\ results' = Append(results, [status |-> "panic_no_address"])
    /\ UNCHANGED << timeout_seconds, config, elapsed, devices, resolved, discovered, idx,
                    device_info_response, friendly_name, samples, owner,
                    requests, late, ref_pc, ref_devices >>

\* reqwest::blocking::get(".../api")?.json::<DeviceInfoResponse>()? is an Err:
\* the request failed or the body did not decode
InfoErr ==
    /\ pc = "info"
    /\ discovered[idx].ip_addresses # {}
    /\ requests' = Append(requests, InfoRequest(idx))
    /\ SkipDevice([status |-> "info_err"])

\* GET /api decoded; friendly_name is computed and
\* HomewizardDeviceType::from_str(&product_type).unwrap() picks the match arm
InfoOk ==
    /\ pc = "info"
    /\ discovered[idx].ip_addresses # {}
    /\ \E info \in DeviceInfoResponse :
          IF from_str(info.product_type) = "Err"
          THEN /\ pc' = "panicked"
               /\ results' = Append(results,
                                    [status |-> "panic_unknown_type", info |-> info])
               /\ UNCHANGED << device_info_response, friendly_name >>
          ELSE /\ pc' = "data"
               /\ device_info_response' = info
               /\ friendly_name' = FriendlyName(config, info)
               /\ UNCHANGED results
    /\ requests' = Append(requests, InfoRequest(idx))
    /\ UNCHANGED << timeout_seconds, config, elapsed, devices, resolved, discovered, idx,
                    samples, owner, late, ref_pc, ref_devices >>

\* faulty variant: the failed data request is issued a second time
DataErrRetried ==
    /\ pc = "data"
    /\ requests' = requests \o
          << DataRequest(idx, device_info_response.api_version),
             DataRequest(idx, device_info_response.api_version) >>
    /\ SkipDevice([status |-> "data_err"])

\* reqwest::blocking::get(".../api/<api_version>/data")?.json::<...>()? is an Err
DataErr ==
    /\ pc = "data"
    /\ requests' = Append(requests, DataRequest(idx, device_info_response.api_version))
    /\ SkipDevice([status |-> "data_err"])

\* the data payload decoded: the arm's vec! is returned and appended (line 66)
DataOk ==
    /\ pc = "data"
    /\ \E data \in DataResponses(from_str(device_info_response.product_type)) :
          LET new == SamplesOf(from_str(device_info_response.product_type),
                               device_info_response, friendly_name, data)
          IN /\ samples' = AppendSamples(samples, new)
             /\ owner' = AppendSamples(owner, [k \in 1..Len(new) |-> idx])
             /\ results' = Append(results, [status |-> "ok",
                                            info |-> device_info_response,
                                            data |-> data])
    /\ idx' = idx + 1
    /\ pc' = LoopHead(idx + 1, Len(discovered))
    /\ device_info_response' = NoInfo
    /\ friendly_name' = ""
    /\ requests' = Append(requests, DataRequest(idx, device_info_response.api_version))
    /\ UNCHANGED << timeout_seconds, config, elapsed, devices, resolved, discovered,
                    late, ref_pc, ref_devices >>

Next ==
    \/ Tick
    \/ RecvServiceResolved
    \/ RecvOtherEvent
    \/ RecvErr
    \/ CheckDeadline
    \/ RefRecvServiceResolved
    \/ RefCheckDeadline
    \/ RefRecvErr
    \/ CollectDevices
    \/ InfoNoAddress
    \/ InfoErr
    \/ InfoOk
    \/ DataErr
    \/ DataOk

Spec == Init /\ [][Next]_vars

\* the steps the thread takes on its own are taken; no event has to arrive,
\* the channel does not have to close and no HTTP request has to answer
FairSpec ==
    /\ Spec
    /\ WF_vars(Tick)
    /\ WF_vars(CheckDeadline)
    /\ WF_vars(CollectDevices)

\* ------------------------------------------------------------ properties
\* the cycle has not ended
Running == pc \in {"recv", "check", "collect", "info", "data"}

\* the friendly name as the specification words it
ResolvedName(info) ==
    IF \E serial \in DOMAIN config.names : serial = info.serial
    THEN config.names[info.serial]
    ELSE info.product_name

\* what a finished device is due to contribute
ExpectedOf(r) ==
    IF r.status = "ok"
    THEN SamplesOf(from_str(r.info.product_type), r.info, ResolvedName(r.info), r.data)
    ELSE << >>

RECURSIVE ConcatExpected(_)
ConcatExpected(i) ==
    IF i = 0 THEN << >> ELSE ConcatExpected(i - 1) \o ExpectedOf(results[i])

RECURSIVE BlockUpTo(_, _)
BlockUpTo(i, k) ==
    IF k = 0 THEN << >>
    ELSE IF owner[k] = i THEN Append(BlockUpTo(i, k - 1), samples[k])
    ELSE BlockUpTo(i, k - 1)

\* the samples device i contributed, in their order in measurement.samples
BlockOf(i) == BlockUpTo(i, Len(owner))

Unreachable(i) == results[i].status \in {"info_err", "data_err"}

ExactlyOneUnreachable ==
    \E i \in DOMAIN results :
       /\ Unreachable(i)
       /\ \A j \in DOMAIN results : j # i => results[j].status = "ok"

\* C1: when the cycle has ended and exactly one device was unreachable (its
\* info or data request failed or did not decode) while every other one
\* answered, get_measurement has returned Ok, every discovered device was
\* processed, and the samples are exactly the complete sample lists of the
\* other N-1 devices.
C1_PartialFailure ==
    (~Running /\ ExactlyOneUnreachable) =>
        /\ pc = "returned"
        /\ Len(results) = Len(discovered)
        /\ samples = ConcatExpected(Len(results))
        /\ { owner[k] : k \in DOMAIN owner } =
              { i \in DOMAIN discovered : ~Unreachable(i) }
        /\ Cardinality({ owner[k] : k \in DOMAIN owner }) = Len(discovered) - 1

\* three devices, the second one unreachable, the third one still processed
C1_Witness ==
    /\ pc = "returned"
    /\ Len(discovered) = 3
    /\ results[1].status = "ok"
    /\ results[2].status = "info_err"
    /\ results[3].status = "ok"
    /\ \E k \in DOMAIN owner : owner[k] = 3

\* C2: once discovery has returned its device list, no per-device condition
\* keeps get_measurement from returning Ok(Measurement): the cycle never ends
\* in any other way.
C2_NeverFailsOnDevice == pc # "panicked"

UnknownTypeReported(i) ==
    /\ results[i].status \in {"ok", "panic_unknown_type"}
    /\ from_str(results[i].info.product_type) = "Err"

\* C3: a device whose info response reports an unknown product type is
\* dropped (it contributes no sample) and the cycle goes on to return Ok.
C3_UnknownTypeDropped ==
    \A i \in DOMAIN results :
       UnknownTypeReported(i) =>
          /\ pc # "panicked"
          /\ \A k \in DOMAIN owner : owner[k] # i

InDiscovery == pc \in {"recv", "check"}

\* C4: discovery is time-bounded: once more than timeout_seconds have elapsed
\* since the browse session started, discover_devices leaves its receive loop,
\* whether or not any event arrives.
C4_DiscoveryBounded ==
    (InDiscovery /\ elapsed > timeout_seconds) ~> ~InDiscovery

\* the fullnames of the resolved events delivered so far
ResolvedNames == { resolved[k].fullname : k \in DOMAIN resolved }

\* the position of the most recent resolved event for fullname f
LastResolved(f) ==
    CHOOSE k \in DOMAIN resolved :
       /\ resolved[k].fullname = f
       /\ \A j \in DOMAIN resolved : j > k => resolved[j].fullname # f

\* one entry per resolved fullname, carrying the latest address set
LatestEntries ==
    { [fullname |-> f, ip_addresses |-> resolved[LastResolved(f)].ip_addresses] :
      f \in ResolvedNames }

\* C5: while discovery consumes events the device map holds exactly one entry
\* per resolved fullname, with the address set of the most recent resolved
\* event for it; and discover_devices returns exactly these entries, each once.
C5_DiscoveryDedup ==
    /\ [](pc \in {"recv", "check", "collect"} =>
            /\ DOMAIN devices = ResolvedNames
            /\ \A f \in DOMAIN devices :
                  devices[f] = resolved[LastResolved(f)].ip_addresses)
    /\ [][(pc = "collect" /\ pc' # "collect") =>
            /\ { discovered'[i] : i \in DOMAIN discovered' } = LatestEntries
            /\ Len(discovered') = Cardinality(ResolvedNames)]_vars

\* the same fullname resolved twice with different address sets, then returned
C5_Witness ==
    /\ pc = "collect"
    /\ Len(resolved) = 3
    /\ resolved[1].fullname = resolved[3].fullname
    /\ resolved[1].ip_addresses # resolved[3].ip_addresses
    /\ resolved[2].fullname # resolved[1].fullname
    /\ devices[resolved[1].fullname] = {"192.168.1.10"}

\* the number of samples the specification gives each product type
CountOf(product_type) ==
    CASE product_type = "HWE-P1" -> 5
      [] product_type = "HWE-WTR" -> 2
      [] product_type \in {"HWE-SKT", "SDM230-wifi", "SDM630-wifi"} -> 3

\* entity type, sample type and metric type of each sample of a product type
ShapeOf(product_type) ==
    CASE product_type = "HWE-P1" ->
            << <<"Tariff", "ElectricityConsumption", "Counter">>,
               <<"Tariff", "ElectricityProduction", "Counter">>,
               <<"Tariff", "ElectricityConsumption", "Counter">>,
               <<"Tariff", "ElectricityProduction", "Counter">>,
               <<"Device", "ElectricityConsumption", "Gauge">> >>
      [] product_type = "HWE-WTR" ->
            << <<"Device", "WaterConsumption", "Counter">>,
               <<"Device", "WaterConsumption", "Gauge">> >>
      [] product_type \in {"HWE-SKT", "SDM230-wifi", "SDM630-wifi"} ->
            << <<"Device", "ElectricityConsumption", "Counter">>,
               <<"Device", "ElectricityProduction", "Counter">>,
               <<"Device", "ElectricityConsumption", "Gauge">> >>

ShapeOfBlock(b) ==
    [k \in DOMAIN b |-> <<b[k].entity_type, b[k].sample_type, b[k].metric_type>>]

\* C6: in every state of the cycle each device has contributed either no
\* sample or the complete sample list of its type (3, 2 or 5 samples of the
\* type's shape), only finished devices have contributed, and a data request
\* that fails leaves the accumulated samples unchanged.
C6_AllOrNothing ==
    /\ [](/\ Len(owner) = Len(samples)
          /\ \A k \in DOMAIN owner : owner[k] \in DOMAIN results
          /\ \A i \in DOMAIN results :
                \/ BlockOf(i) = << >>
                \/ /\ results[i].status = "ok"
                   /\ Len(BlockOf(i)) = CountOf(results[i].info.product_type)
                   /\ ShapeOfBlock(BlockOf(i)) = ShapeOf(results[i].info.product_type)
                   /\ \A k \in DOMAIN BlockOf(i) :
                         BlockOf(i)[k].entity_name = results[i].info.product_type)
    /\ [][(pc = "data" /\ Len(results') > Len(results)
              /\ results'[Len(results')].status = "data_err") =>
            samples' = samples]_vars

\* a device whose data request failed after one that contributed its 3 samples
\* and before one that contributed its 3 samples
C6_Witness ==
    /\ Len(results) = 3
    /\ results[1].status = "ok"
    /\ results[1].info.product_type = "SDM630-wifi"
    /\ results[2].status = "data_err"
    /\ results[3].status = "ok"
    /\ results[3].info.product_type = "HWE-SKT"
    /\ Len(samples) = 6

\* value is x times factor (as rationals)
IsTimes(value, x, factor) == value.n * x.d = x.n * factor * value.d

OkOfType(i, product_type) ==
    /\ results[i].status = "ok"
    /\ results[i].info.product_type = product_type

\* the P1 payload of the specification's scenario
P1Scenario ==
    [total_power_import_t1_kwh |-> [n |-> 1, d |-> 1],
     total_power_export_t1_kwh |-> [n |-> 0, d |-> 1],
     total_power_import_t2_kwh |-> [n |-> 2, d |-> 1],
     total_power_export_t2_kwh |-> [n |-> 0, d |-> 1],
     active_power_w |-> [n |-> 500, d |-> 1]]

\* C7: a P1Meter contributes exactly 5 samples in the order t1 import,
\* t1 export, t2 import, t2 export (Tariff Counters, value = the kWh field
\* x 1000 x 3600), then the Device/ElectricityConsumption/Gauge with
\* active_power_w unscaled; the scenario payload gives 3600000, 0, 7200000,
\* 0, 500.
C7_P1MeterSamples ==
    \A i \in DOMAIN results :
       OkOfType(i, "HWE-P1") =>
          LET b == BlockOf(i)
              data == results[i].data
          IN /\ Len(b) = 5
             /\ [k \in 1..4 |-> b[k].sample_name] =
                   << "t1 import", "t1 export", "t2 import", "t2 export" >>
             /\ ShapeOfBlock(b) = ShapeOf("HWE-P1")
             /\ IsTimes(b[1].value, data.total_power_import_t1_kwh, 1000 * 3600)
             /\ IsTimes(b[2].value, data.total_power_export_t1_kwh, 1000 * 3600)
             /\ IsTimes(b[3].value, data.total_power_import_t2_kwh, 1000 * 3600)
             /\ IsTimes(b[4].value, data.total_power_export_t2_kwh, 1000 * 3600)
             /\ b[5].value = data.active_power_w
             /\ data = P1Scenario =>
                   [k \in 1..5 |-> b[k].value] =
                      << [n |-> 3600000, d |-> 1], [n |-> 0, d |-> 1],
                         [n |-> 7200000, d |-> 1], [n |-> 0, d |-> 1],
                         [n |-> 500, d |-> 1] >>

\* a P1 meter that answered with the scenario payload, in a returned Measurement
C7_Witness ==
    /\ pc = "returned"
    /\ \E i \in DOMAIN results :
          /\ OkOfType(i, "HWE-P1")
          /\ results[i].data = P1Scenario
          /\ Len(BlockOf(i)) = 5

C9_FriendlyName ==
    /\ pc = "data" => friendly_name = ResolvedName(device_info_response)
    /\ \A i \in DOMAIN results :
          results[i].status = "ok" =>
             \A k \in DOMAIN BlockOf(i) :
                BlockOf(i)[k].entity_type = "Device" =>
                   BlockOf(i)[k].sample_name = ResolvedName(results[i].info)

\* one Measurement with a mapped serial (named "Kitchen") and an unmapped one
\* (named by its productName), on devices of different types
C9_Witness ==
    /\ pc = "returned"
    /\ \E i, j \in DOMAIN results :
          /\ OkOfType(i, "HWE-P1")
          /\ results[i].info.serial = "abc123"
          /\ BlockOf(i)[5].sample_name = "Kitchen"
          /\ OkOfType(j, "HWE-SKT")
          /\ results[j].info.serial = "3c39e72e33ce"
          /\ BlockOf(j)[1].sample_name = "Energy Socket"

IsPrefix(s, t) == Len(s) <= Len(t) /\ SubSeq(t, 1, Len(s)) = s

\* C10: the sample list is at all times the concatenation, in the order in
\* which get_measurement iterates the discovered devices, of the sample lists
\* of the devices that succeeded so far: each device's samples are one
\* contiguous block, blocks follow the iteration order, and a step never
\* reorders, removes or changes samples already appended.
C10_SampleOrdering ==
    /\ [](/\ samples = ConcatExpected(Len(results))
          /\ Len(owner) = Len(samples)
          /\ \A k \in DOMAIN owner : k > 1 => owner[k - 1] <= owner[k])
    /\ [][IsPrefix(samples, samples')]_vars

\* three devices of three types all contributed: blocks of 2, 5 and 3 samples
C10_Witness ==
    /\ pc = "returned"
    /\ Len(results) = 3
    /\ OkOfType(1, "HWE-WTR")
    /\ OkOfType(2, "HWE-P1")
    /\ OkOfType(3, "SDM230-wifi")
    /\ owner = << 1, 1, 2, 2, 2, 2, 2, 3, 3, 3 >>

\* C11: events other than "resolved" do not affect the result of discovery:
\* the run on the event stream as it is and the run on the same stream with
\* the non-resolved events removed (same resolved events, same arrival
\* times), once both have left the loop, hold the same devices.
C11_OtherEventsIrrelevant ==
    (pc = "collect" /\ ref_pc = "collect") => devices = ref_devices

\* the requests issued to the device at position i, in order
RECURSIVE RequestsUpTo(_, _)
RequestsUpTo(i, k) ==
    IF k = 0 THEN << >>
    ELSE IF requests[k].device = i THEN Append(RequestsUpTo(i, k - 1), requests[k].path)
    ELSE RequestsUpTo(i, k - 1)

RequestsOf(i) == RequestsUpTo(i, Len(requests))

\* C12: no device request is issued before discovery has returned; requests
\* of different devices never interleave and follow the iteration order; each
\* device gets at most one GET /api followed by at most one
\* GET /api/<apiVersion>/data, the latter only after its info request
\* succeeded; a failed request is not repeated and ends the device's requests.
C12_RequestOrdering ==
    /\ pc \in {"recv", "check", "collect"} => requests = << >>
    /\ \A k \in DOMAIN requests :
          /\ requests[k].device \in DOMAIN discovered
          /\ requests[k].device <= idx
          /\ k > 1 => requests[k - 1].device <= requests[k].device
    /\ \A i \in DOMAIN discovered :
          /\ \/ RequestsOf(i) = << >>
             \/ RequestsOf(i) = << <<"api">> >>
             \/ /\ Len(RequestsOf(i)) = 2
                /\ RequestsOf(i)[1] = <<"api">>
                /\ i \in DOMAIN results
                /\ results[i].status \in {"ok", "data_err"}
                /\ results[i].status = "ok" =>
                      RequestsOf(i)[2] = <<"api", results[i].info.api_version, "data">>
          /\ (i \in DOMAIN results /\ results[i].status = "info_err") =>
                RequestsOf(i) = << <<"api">> >>
          /\ (i \in DOMAIN results /\ results[i].status = "data_err") =>
                RequestsOf(i) = << <<"api">>, <<"api", "v1", "data">> >>

\* three devices: a failed info request, a failed data request, a success
C12_Witness ==
    /\ pc = "returned"
    /\ Len(results) = 3
    /\ results[1].status = "info_err"
    /\ results[2].status = "data_err"
    /\ results[3].status = "ok"
    /\ Len(requests) = 5

\* C13: the deadline is evaluated only after the event just received has
\* been handled: whenever the loop is at its deadline check or has left the
\* loop, every resolved event it received is in the device map, one received
\* after the deadline included, and discover_devices returns a device for
\* each of them; at most one event received after the deadline is consumed.
C13_DeadlineAfterEvent ==
    /\ [](/\ pc \in {"check", "collect"} =>
               \A k \in DOMAIN resolved : resolved[k].fullname \in DOMAIN devices
          /\ (pc \in {"check", "collect"} /\ late = << "resolved" >>) =>
               devices[resolved[Len(resolved)].fullname] =
                  resolved[Len(resolved)].ip_addresses
          /\ Len(late) <= 1)
    /\ [][(pc = "collect" /\ pc' # "collect") =>
            \A k \in DOMAIN resolved :
               \E i \in DOMAIN discovered' :
                  discovered'[i].fullname = resolved[k].fullname]_vars

\* the loop has ended on a resolved event that arrived after the deadline,
\* the only event of its device, and that device is in the map
C13_Witness ==
    /\ pc = "collect"
    /\ late = << "resolved" >>
    /\ Len(resolved) = 2
    /\ resolved[1].fullname # resolved[2].fullname
    /\ DOMAIN devices = { resolved[1].fullname, resolved[2].fullname }
    /\ elapsed > timeout_seconds

====
